---- MODULE Spec2Model ----
(***************************************************************************)
(* Model of scraper.py (Windows ISO links scraper).                        *)
(*                                                                         *)
(* A Python string is a finite sequence of tokens.  A token stands for a   *)
(* run of characters that the program's patterns never split: a word, a    *)
(* punctuation character the patterns look for ("|", "[", ">", ...), a     *)
(* single space, a newline.  Substring tests of the code on a token are    *)
(* the classification predicates below.                                    *)
(***************************************************************************)
EXTENDS Integers, Sequences, FiniteSets, TLC

VARIABLES
    pc,           \* position of main: "windows", "office", "write", "done", "failed"
    idx,          \* index in MD_FILES of the document the loop is at
    all_data,     \* the Catalog under construction
    fetched,      \* log of the filenames given to fetch_markdown_content
    written,      \* number of times the output artifact was written
    exit_status,  \* process exit status
    input,        \* abstract description of the text handed to a parser
    content,      \* the text handed to a parser (token sequence)
    result,       \* what the parser returned
    op            \* which parser produced result

vars == <<pc, idx, all_data, fetched, written, exit_status, input, content, result, op>>

-----------------------------------------------------------------------------
(* Tokens *)

NL == "\n"
SP == " "

MinOf(S) == CHOOSE x \in S : \A y \in S : x <= y
MaxOf(S) == CHOOSE x \in S : \A y \in S : x >= y

\* str.isspace on a token
IsSpace(t) == t \in {SP, NL}

\* 'x64' in t or 'x86' in t or 'ARM64' in t
HasArchToken(t) == t \in {"x64", "x86", "ARM64", "Win_x64.iso"}

\* t.startswith('Language')
StartsWithLanguage(t) == t \in {"Language", "Languages"}

\* t.startswith(':--')
StartsWithSepMark(t) == t \in {":--", ":---:"}

\* 'Other Versions' in t
HasOtherVersions(t) == t \in {"Other Versions", "Other Versions - Misc"}

\* re: \d+
IsDigits(t) == t \in {"26100", "1742", "7601", "2016", "2013", "365"}

\* re: \d{4}
IsFourDigits(t) == t \in {"2016", "2013", "1742", "7601"}

\* re: Build, with re.IGNORECASE
IsBuildWord(t) == t \in {"Build", "build", "BUILD"}

-----------------------------------------------------------------------------
(* str.strip, str.split *)

Strip(s) ==
    LET keep == {i \in 1..Len(s) : ~IsSpace(s[i])}
    IN IF keep = {} THEN <<>> ELSE SubSeq(s, MinOf(keep), MaxOf(keep))

RECURSIVE SplitFrom(_, _, _)
SplitFrom(s, sep, i) ==
    LET at == {j \in i..Len(s) : s[j] = sep}
    IN IF at = {}
       THEN <<SubSeq(s, i, Len(s))>>
       ELSE <<SubSeq(s, i, MinOf(at) - 1)>> \o SplitFrom(s, sep, MinOf(at) + 1)

Split(s, sep) == SplitFrom(s, sep, 1)

\* first index >= i of s holding tok, 0 when there is none
FirstAt(s, i, tok) ==
    LET at == {j \in i..Len(s) : s[j] = tok}
    IN IF at = {} THEN 0 ELSE MinOf(at)

-----------------------------------------------------------------------------
(* extract_markdown_table_data *)

\* '|:--' in line
HasSeparator(line) ==
    \E i \in 1..(Len(line) - 1) : line[i] = "|" /\ StartsWithSepMark(line[i + 1])

\* line.strip().startswith('| Language')
IsHeaderLine(line) ==
    LET t == Strip(line)
    IN Len(t) >= 3 /\ t[1] = "|" /\ t[2] = SP /\ StartsWithLanguage(t[3])

\* the condition of the `continue` at line 67
SkippedLine(line) == HasSeparator(line) \/ IsHeaderLine(line)

\* '|' in line and ('x64' in line or 'x86' in line or 'ARM64' in line)
IsDataRow(line) ==
    /\ \E i \in 1..Len(line) : line[i] = "|"
    /\ \E i \in 1..Len(line) : HasArchToken(line[i])

\* CellsOf without its `if cell.strip()`: the empty cells are kept
CellsOfKeepEmpty(line) ==
    LET raw == Split(line, "|")
    IN [i \in 1..Len(raw) |-> Strip(raw[i])]

\* [cell.strip() for cell in line.split('|') if cell.strip()]
CellsOf(line) ==
    LET raw == Split(line, "|")
    IN SelectSeq([i \in 1..Len(raw) |-> Strip(raw[i])], LAMBDA c : c # <<>>)

\* re.match of \[([^\]]+)\]\(([^\)]+)\) at index i of s
LinkAt(s, i) ==
    LET j == FirstAt(s, i + 1, "]")
        k == IF j = 0 THEN 0 ELSE FirstAt(s, j + 2, ")")
    IN /\ s[i] = "["
       /\ j > i + 1
       /\ j + 1 <= Len(s)
       /\ s[j + 1] = "("
       /\ k > j + 2

\* re.search(r'\[([^\]]+)\]\(([^\)]+)\)', s): <<>> or <<[filename, url]>>
SearchLink(s) ==
    LET hits == {i \in 1..Len(s) : LinkAt(s, i)}
    IN IF hits = {}
       THEN <<>>
       ELSE LET i == MinOf(hits)
                j == FirstAt(s, i + 1, "]")
                k == FirstAt(s, j + 2, ")")
            IN <<[filename |-> SubSeq(s, i + 1, j - 1),
                  url |-> SubSeq(s, j + 2, k - 1)]>>

\* the body of the for loop over lines: the records one line appends
RowRecords(line) ==
    IF SkippedLine(line) THEN <<>>
    ELSE IF ~IsDataRow(line) THEN <<>>
    ELSE LET cells == CellsOf(line)
         IN IF Len(cells) < 3 THEN <<>>
            ELSE LET m == SearchLink(cells[3])
                 IN IF m = <<>> THEN <<>>
                    ELSE <<[language |-> cells[1],
                            architecture |-> cells[2],
                            filename |-> m[1].filename,
                            url |-> m[1].url]>>

RECURSIVE RowsFrom(_, _)
RowsFrom(lines, i) ==
    IF i > Len(lines) THEN <<>>
    ELSE RowRecords(lines[i]) \o RowsFrom(lines, i + 1)

extract_markdown_table_data(table_content) ==
    RowsFrom(Split(table_content, NL), 1)

-----------------------------------------------------------------------------
(* extract_build_number *)

\* smallest index >= i of s that holds no whitespace, Len(s) + 1 when none
SkipSpaces(s, i) ==
    MinOf({j \in i..(Len(s) + 1) : j = Len(s) + 1 \/ ~IsSpace(s[j])})

\* re: \d+(?:\.\d+)* from the digits at index e: index of its last token
RECURSIVE DottedEnd(_, _)
DottedEnd(s, e) ==
    IF e + 2 <= Len(s) /\ s[e + 1] = "." /\ IsDigits(s[e + 2])
    THEN DottedEnd(s, e + 2)
    ELSE e

\* index of the digits when Build\s*-\s*(\d+(?:\.\d+)*) matches at i, else 0
BuildAt(s, i) ==
    IF ~IsBuildWord(s[i]) THEN 0
    ELSE LET a == SkipSpaces(s, i + 1)
         IN IF a > Len(s) \/ s[a] # "-" THEN 0
            ELSE LET b == SkipSpaces(s, a + 1)
                 IN IF b > Len(s) \/ ~IsDigits(s[b]) THEN 0 ELSE b

extract_build_number(s) ==
    LET hits == {i \in 1..Len(s) : BuildAt(s, i) > 0}
    IN IF hits = {}
       THEN <<"Unknown">>
       ELSE LET b == BuildAt(s, MinOf(hits))
            IN SubSeq(s, b, DottedEnd(s, b))

-----------------------------------------------------------------------------
(* TabItem blocks *)

TabOpen   == "<TabItem"
TabClose  == "</TabItem>"
ValueAttr == "value=\""
LabelAttr == "label=\""
Quote     == "\""

\* the quoted attribute opened at p and closed before e: index of its closing
\* quote when ATTR"([^"]+)" matches there, else 0
AttrClose(s, p, e) ==
    LET q == FirstAt(s, p + 1, Quote)
    IN IF q > p + 1 /\ q < e THEN q ELSE 0

\* positions r of label=" after q inside the tag ending at e
LabelsAfter(s, q, e) ==
    {r \in (q + 1)..(e - 1) : s[r] = LabelAttr /\ AttrClose(s, r, e) > 0}

\* positions p of value=" inside the tag (i, e) that a label=" follows
ValuesIn(s, i, e) ==
    {p \in (i + 1)..(e - 1) :
        /\ s[p] = ValueAttr
        /\ AttrClose(s, p, e) > 0
        /\ LabelsAfter(s, AttrClose(s, p, e), e) # {}}

\* re.match of <TabItem[^>]*value="([^"]+)"[^>]*label="([^"]+)"[^>]*>(.*?)</TabItem>
\* at index i (re.DOTALL); a quoted attribute holds no ">"
TabItemAt(s, i) ==
    LET e == FirstAt(s, i + 1, ">")
    IN /\ s[i] = TabOpen
       /\ e > 0
       /\ ValuesIn(s, i, e) # {}
       /\ FirstAt(s, e + 1, TabClose) > 0

\* the groups of that match, and the index of its last token
TabItemGroups(s, i) ==
    LET e == FirstAt(s, i + 1, ">")
        p == MaxOf(ValuesIn(s, i, e))
        q == AttrClose(s, p, e)
        r == MaxOf(LabelsAfter(s, q, e))
        u == AttrClose(s, r, e)
        c == FirstAt(s, e + 1, TabClose)
    IN [value |-> SubSeq(s, p + 1, q - 1),
        label |-> SubSeq(s, r + 1, u - 1),
        content |-> SubSeq(s, e + 1, c - 1),
        stop |-> c]

\* re.findall of the TabItem pattern from index i on
RECURSIVE TabItemsFrom(_, _)
TabItemsFrom(s, i) ==
    LET hits == {j \in i..Len(s) : TabItemAt(s, j)}
    IN IF hits = {} THEN <<>>
       ELSE LET g == TabItemGroups(s, MinOf(hits))
            IN <<[value |-> g.value, label |-> g.label, content |-> g.content]>>
               \o TabItemsFrom(s, g.stop + 1)

extract_tabitems_with_content(section) == TabItemsFrom(section, 1)

\* re.match of <TabItem[^>]*value="VALUE"[^>]*>(.*?)</TabItem> at index i
TabByValueAt(s, i, value) ==
    LET e == FirstAt(s, i + 1, ">")
        n == Len(value)
    IN /\ s[i] = TabOpen
       /\ e > 0
       /\ \E p \in (i + 1)..(e - 1) :
            /\ s[p] = ValueAttr
            /\ p + n + 1 < e
            /\ SubSeq(s, p + 1, p + n) = value
            /\ s[p + n + 1] = Quote
       /\ FirstAt(s, e + 1, TabClose) > 0

\* re.search of that pattern: <<>> or <<group 1>>
SearchTabByValue(s, value) ==
    LET hits == {i \in 1..Len(s) : TabByValueAt(s, i, value)}
    IN IF hits = {}
       THEN <<>>
       ELSE LET e == FirstAt(s, MinOf(hits) + 1, ">")
            IN <<SubSeq(s, e + 1, FirstAt(s, e + 1, TabClose) - 1)>>

-----------------------------------------------------------------------------
(* Level-2 headings *)

AtLineStart(s, i) == i = 1 \/ s[i - 1] = NL

\* index of the last token of the line that holds index a
LineEnd(s, a) ==
    LET n == FirstAt(s, a, NL) IN IF n = 0 THEN Len(s) ELSE n - 1

\* where \s*$ (re.MULTILINE) ends when tried after index t: the largest k in
\* the whitespace run after t with k at the end of a line; 0 when none
EolAfter(s, t) ==
    LET w == SkipSpaces(s, t + 1) - 1
        ks == {k \in t..w : k = Len(s) \/ s[k + 1] = NL}
    IN IF ks = {} THEN 0 ELSE MaxOf(ks)

\* re.match of ^##\s+(.+?)\s*$ (re.MULTILINE) at index i
HeadingAt(s, i) ==
    /\ AtLineStart(s, i)
    /\ s[i] = "##"
    /\ i + 1 <= Len(s)
    /\ IsSpace(s[i + 1])
    /\ SkipSpaces(s, i + 1) <= Len(s)

HeadingGroups(s, i) ==
    LET a == SkipSpaces(s, i + 1)
        t == MaxOf({j \in a..LineEnd(s, a) : ~IsSpace(s[j])})
    IN [start |-> i, stop |-> EolAfter(s, t), title |-> SubSeq(s, a, t)]

\* re.finditer of the heading pattern from index i on
RECURSIVE HeadingsFrom(_, _)
HeadingsFrom(s, i) ==
    LET hits == {j \in i..Len(s) : HeadingAt(s, j)}
    IN IF hits = {} THEN <<>>
       ELSE LET g == HeadingGroups(s, MinOf(hits))
            IN <<g>> \o HeadingsFrom(s, g.stop + 1)

\* re.match of ^##\s+(Office\s+\d{4})\s*$ (re.MULTILINE) at index i
OfficeHeadingAt(s, i) ==
    /\ HeadingAt(s, i)
    /\ LET a == SkipSpaces(s, i + 1)
       IN /\ s[a] = "Office"
          /\ a + 1 <= Len(s)
          /\ IsSpace(s[a + 1])
          /\ LET b == SkipSpaces(s, a + 1)
             IN b <= Len(s) /\ IsFourDigits(s[b]) /\ EolAfter(s, b) > 0

OfficeHeadingGroups(s, i) ==
    LET a == SkipSpaces(s, i + 1)
        b == SkipSpaces(s, a + 1)
    IN [start |-> i, stop |-> EolAfter(s, b), title |-> SubSeq(s, a, b)]

RECURSIVE OfficeHeadingsFrom(_, _)
OfficeHeadingsFrom(s, i) ==
    LET hits == {j \in i..Len(s) : OfficeHeadingAt(s, j)}
    IN IF hits = {} THEN <<>>
       ELSE LET g == OfficeHeadingGroups(s, MinOf(hits))
            IN <<g>> \o OfficeHeadingsFrom(s, g.stop + 1)

\* SectionOf with end = len(content) for every heading
SectionToEnd(s, hs, i) == SubSeq(s, hs[i].stop + 1, Len(s))

\* content[start:end] of heading i among headings hs
SectionOf(s, hs, i) ==
    SubSeq(s, hs[i].stop + 1,
           IF i + 1 <= Len(hs) THEN hs[i + 1].start - 1 ELSE Len(s))

-----------------------------------------------------------------------------
(* parse_headings_versions, parse_windows_versions, parse_office_sections *)

VersionRecord(name, label, build, downloads) ==
    [version_name |-> name, version_label |-> label,
     build |-> build, downloads |-> downloads]

\* the body of the loop over headings: the records heading i appends
HeadingRecords(s, hs, i) ==
    LET section == SectionOf(s, hs, i)
        downloads == extract_markdown_table_data(section)
    IN IF downloads = <<>> THEN <<>>
       ELSE <<VersionRecord(Strip(hs[i].title), Strip(hs[i].title),
                            extract_build_number(section), downloads)>>

RECURSIVE HeadingVersionsFrom(_, _, _)
HeadingVersionsFrom(s, hs, i) ==
    IF i > Len(hs) THEN <<>>
    ELSE HeadingRecords(s, hs, i) \o HeadingVersionsFrom(s, hs, i + 1)

parse_headings_versions(s) ==
    HeadingVersionsFrom(s, HeadingsFrom(s, 1), 1)

\* 'Other Versions' in value or 'Other Versions' in label
IsOtherVersions(value, label) ==
    \/ \E i \in 1..Len(value) : HasOtherVersions(value[i])
    \/ \E i \in 1..Len(label) : HasOtherVersions(label[i])

\* TabRecords without its `if downloads`
TabRecordsKeepEmpty(s, value, label) ==
    IF IsOtherVersions(value, label) THEN <<>>
    ELSE LET match == SearchTabByValue(s, value)
         IN IF match = <<>> THEN <<>>
            ELSE <<VersionRecord(value, label, extract_build_number(match[1]),
                                 extract_markdown_table_data(match[1]))>>

\* the body of the loop over tab_items: the records one (value, label) appends
TabRecords(s, value, label) ==
    IF IsOtherVersions(value, label) THEN <<>>
    ELSE LET match == SearchTabByValue(s, value)
         IN IF match = <<>> THEN <<>>
            ELSE LET downloads == extract_markdown_table_data(match[1])
                 IN IF downloads = <<>> THEN <<>>
                    ELSE <<VersionRecord(value, label,
                                         extract_build_number(match[1]), downloads)>>

RECURSIVE TabVersionsFrom(_, _, _)
TabVersionsFrom(s, tab_items, i) ==
    IF i > Len(tab_items) THEN <<>>
    ELSE TabRecords(s, tab_items[i].value, tab_items[i].label)
         \o TabVersionsFrom(s, tab_items, i + 1)

\* versions after the loop over tab_items (lines 141-175)
TabVersions(s) == TabVersionsFrom(s, TabItemsFrom(s, 1), 1)

parse_windows_versions(s) ==
    LET versions == TabVersions(s)
    IN IF versions = <<>> THEN parse_headings_versions(s) ELSE versions

\* a dict as the sequence of its (key, value) pairs in insertion order
DictKeys(d) == [i \in 1..Len(d) |-> d[i].key]

DictHas(d, k) == \E i \in 1..Len(d) : d[i].key = k

\* d[k] = v
DictSet(d, k, v) ==
    IF DictHas(d, k)
    THEN [i \in 1..Len(d) |-> IF d[i].key = k THEN [key |-> k, val |-> v] ELSE d[i]]
    ELSE Append(d, [key |-> k, val |-> v])

\* d.update(other)
RECURSIVE DictUpdateFrom(_, _, _)
DictUpdateFrom(d, other, i) ==
    IF i > Len(other) THEN d
    ELSE DictUpdateFrom(DictSet(d, other[i].key, other[i].val), other, i + 1)

DictUpdate(d, other) == DictUpdateFrom(d, other, 1)

\* the body of the loop over tabitems of a section: the records one item appends
OfficeTabRecords(ti) ==
    LET downloads == extract_markdown_table_data(ti.content)
    IN IF downloads = <<>> THEN <<>>
       ELSE <<VersionRecord(ti.value, ti.label,
                            extract_build_number(ti.content), downloads)>>

RECURSIVE OfficeVersionsFrom(_, _)
OfficeVersionsFrom(tabitems, i) ==
    IF i > Len(tabitems) THEN <<>>
    ELSE OfficeTabRecords(tabitems[i]) \o OfficeVersionsFrom(tabitems, i + 1)

RECURSIVE OfficeSectionsFrom(_, _, _, _)
OfficeSectionsFrom(s, hs, i, office_data) ==
    IF i > Len(hs) THEN office_data
    ELSE LET versions ==
                 OfficeVersionsFrom(
                     extract_tabitems_with_content(SectionOf(s, hs, i)), 1)
         IN OfficeSectionsFrom(s, hs, i + 1,
                IF versions # <<>>
                THEN DictSet(office_data, Strip(hs[i].title), versions)
                ELSE office_data)

parse_office_sections(s) ==
    OfficeSectionsFrom(s, OfficeHeadingsFrom(s, 1), 1, <<>>)

-----------------------------------------------------------------------------
(* Texts handed to the parsers: an abstract description and its rendering *)

MaxCells  == 4   \* raw cells of a table line
MaxBlocks == 3   \* blocks of a document

RECURSIVE JoinFrom(_, _, _)
JoinFrom(parts, sep, i) ==
    IF i > Len(parts) THEN <<>>
    ELSE IF i = Len(parts) THEN parts[i]
    ELSE parts[i] \o <<sep>> \o JoinFrom(parts, sep, i + 1)

\* sep.join(parts)
Join(parts, sep) == JoinFrom(parts, sep, 1)

RECURSIVE ConcatFrom(_, _)
ConcatFrom(parts, i) ==
    IF i > Len(parts) THEN <<>> ELSE parts[i] \o ConcatFrom(parts, i + 1)

Concat(parts) == ConcatFrom(parts, 1)

(* A table line is described by the kinds of its raw cells, left to right,  *)
(* joined by "|": "blank" is an empty cell, as before the leading pipe.     *)
CellKinds == {"blank", "lang", "hdr", "arch", "link", "linkx", "sep"}

\* the characters of a cell without its padding
CellWord(kind) ==
    CASE kind = "blank" -> <<>>
      [] kind = "lang"  -> <<"English">>
      [] kind = "hdr"   -> <<"Language">>
      [] kind = "arch"  -> <<"x64">>
      [] kind = "link"  -> <<"[", "a.iso", "]", "(", "http://a", ")">>
      [] kind = "linkx" -> <<"[", "Win_x64.iso", "]", "(", "http://x", ")">>
      [] kind = "sep"   -> <<":--">>

CellText(kind) ==
    IF kind \in {"blank", "sep"} THEN CellWord(kind)
    ELSE <<SP>> \o CellWord(kind) \o <<SP>>

TableLines == UNION {[1..n -> CellKinds] : n \in 1..MaxCells}

GoodRow == <<"blank", "lang", "arch", "link">>

TableBlocks ==
    {<<l>> : l \in TableLines}
        \cup {<<l, GoodRow>> : l \in TableLines}
        \cup {<<GoodRow, l>> : l \in TableLines}

RenderLine(cells) == Join([i \in 1..Len(cells) |-> CellText(cells[i])], "|")

RenderTable(lines) == Join([i \in 1..Len(lines) |-> RenderLine(lines[i])], NL)

(* A document is described by its blocks, top to bottom.  A block is a      *)
(* level-2 heading and the lines under it ("h2"), a TabItem block ("tab")   *)
(* or lines outside of both ("rows"); v, l and body name its title or       *)
(* value, its label and the lines it holds.                                 *)
Block(k, v, l, body) == [k |-> k, v |-> v, l |-> l, body |-> body]

NameText(n) ==
    CASE n = "T1"  -> <<"Windows", SP, "XP">>
      [] n = "T2"  -> <<"Windows", SP, "Vista">>
      [] n = "O16" -> <<"Office", SP, "2016">>
      [] n = "O13" -> <<"Office", SP, "2013">>
      [] n = "A"   -> <<"24H2">>
      [] n = "B"   -> <<"23H2">>
      [] n = "OV"  -> <<"Other Versions - Misc">>
      [] n = "LA"  -> <<"Label", SP, "A">>
      [] n = "LB"  -> <<"Label", SP, "B">>
      [] n = "OVL" -> <<"See", SP, "Other Versions">>

Download(lang, arch, name, url) ==
    [language |-> <<lang>>, architecture |-> <<arch>>,
     filename |-> <<name>>, url |-> <<url>>]

RowText(d) ==
    <<"|", SP>> \o d.language \o <<SP, "|", SP>> \o d.architecture
        \o <<SP, "|", SP, "[">> \o d.filename \o <<"]", "(">> \o d.url
        \o <<")", SP, "|", NL>>

HeaderText ==
    <<"|", SP, "Language", SP, "|", SP, "Arch", SP, "|", SP, "Link", SP, "|", NL,
      "|", ":--", "|", ":--", "|", ":--", "|", NL>>

\* the downloads the table of a body lists
BodyRows(body) ==
    CASE body \in {"", "none", "junk"} -> <<>>
      [] body = "r1b"  -> <<Download("English", "x64", "a64.iso", "http://a64"),
                            Download("English", "x86", "a86.iso", "http://a86")>>
      [] body = "r2"   -> <<Download("Arabic", "x86", "b.iso", "http://b")>>
      [] body = "r3"   -> <<Download("German", "ARM64", "c.iso", "http://c")>>

\* the build number a body states
BodyBuild(body) ==
    CASE body = "r1b" -> <<"26100", ".", "1742">>
      [] body = "r3"  -> <<"7601">>
      [] OTHER        -> <<"Unknown">>

BodyText(body) ==
    (CASE body = "r1b" -> <<"Build", SP, "-", SP, "26100", ".", "1742", NL>>
       [] body = "r3"  -> <<"build", "-", "7601", NL>>
       [] OTHER        -> <<>>)
    \o (IF body = "" THEN <<>>
        ELSE IF body = "junk"
        THEN <<"|", SP, "English", SP, "|", SP, "x64", SP, "|", SP, "a.iso", SP, "|", NL>>
        ELSE HeaderText
             \o Concat([i \in 1..Len(BodyRows(body)) |-> RowText(BodyRows(body)[i])]))

BlockText(b) ==
    CASE b.k = "h2"   -> <<"##", SP>> \o NameText(b.v) \o <<NL>> \o BodyText(b.body)
      [] b.k = "tab"  -> <<TabOpen, SP, ValueAttr>> \o NameText(b.v)
                         \o <<Quote, SP, LabelAttr>> \o NameText(b.l)
                         \o <<Quote, ">", NL>> \o BodyText(b.body)
                         \o <<TabClose, NL>>
      [] b.k = "rows" -> BodyText(b.body)

RenderDoc(blocks) == Concat([i \in 1..Len(blocks) |-> BlockText(blocks[i])])

WinBlocks ==
    {Block("h2", "T1", "", "r1b"),
     Block("h2", "T2", "", "r2"),
     Block("h2", "T2", "", "junk"),
     Block("tab", "A", "LA", "r1b"),
     Block("tab", "A", "LB", "r2"),
     Block("tab", "B", "LB", "r2"),
     Block("tab", "B", "LA", "none"),
     Block("tab", "OV", "LA", "r3"),
     Block("tab", "A", "OVL", "r3"),
     Block("rows", "", "", "r2")}

OfficeBlocks ==
    {Block("h2", "O16", "", ""),
     Block("h2", "O13", "", ""),
     Block("h2", "T1", "", "r2"),
     Block("tab", "A", "LA", "r1b"),
     Block("tab", "B", "LB", "r2"),
     Block("tab", "B", "LA", "none"),
     Block("tab", "OV", "LA", "r3"),
     Block("tab", "A", "OVL", "r3")}

DocsOver(blocks) == UNION {[1..n -> blocks] : n \in 0..MaxBlocks}

-----------------------------------------------------------------------------
(* The parsers applied to every text of the bounded sets *)

\* state of main before it starts; the parser specifications leave it alone
MainIdle ==
    /\ pc = "idle"
    /\ idx = 1
    /\ all_data = <<>>
    /\ fetched = <<>>
    /\ written = 0
    /\ exit_status = 0

MainVars == <<pc, idx, all_data, fetched, written, exit_status>>

InitTable ==
    /\ MainIdle
    /\ input \in TableBlocks
    /\ content = RenderTable(input)
    /\ result = <<>>
    /\ op = "none"

ApplyTable ==
    /\ op = "none"
    /\ result' = extract_markdown_table_data(content)
    /\ op' = "table"
    /\ UNCHANGED <<MainVars, input, content>>

SpecTable == InitTable /\ [][ApplyTable]_vars

InitWindows ==
    /\ MainIdle
    /\ input \in DocsOver(WinBlocks)
    /\ content = RenderDoc(input)
    /\ result = <<>>
    /\ op = "none"

ApplyWindows ==
    /\ op = "none"
    /\ result' = parse_windows_versions(content)
    /\ op' = "windows"
    /\ UNCHANGED <<MainVars, input, content>>

SpecWindows == InitWindows /\ [][ApplyWindows]_vars

InitOffice ==
    /\ MainIdle
    /\ input \in DocsOver(OfficeBlocks)
    /\ content = RenderDoc(input)
    /\ result = <<>>
    /\ op = "none"

ApplyOffice ==
    /\ op = "none"
    /\ result' = parse_office_sections(content)
    /\ op' = "office"
    /\ UNCHANGED <<MainVars, input, content>>

SpecOffice == InitOffice /\ [][ApplyOffice]_vars

-----------------------------------------------------------------------------
(* Configuration, Category Mapper *)

MD_FILES ==
    <<<<"windows", "_", "11", "_links.md">>,
      <<"windows", "_", "10", "_links.md">>,
      <<"windows", "_", "7", "_links.md">>,
      <<"windows", "_", "8.1", "_links.md">>,
      <<"windows", "_", "arm", "_links.md">>,
      <<"windows", "_", "ltsc", "_links.md">>,
      <<"windows", "_", "vista", "_", "_links.md">>,
      <<"windows", "_", "xp", "_links.md">>>>

OFFICE_MD_FILE == <<"office", "_", "msi", "_links.md">>

\* sub in s
Contains(s, sub) ==
    \E i \in 0..(Len(s) - Len(sub)) : SubSeq(s, i + 1, i + Len(sub)) = sub

\* str.title on a token
TitleWord(t) ==
    CASE t = "windows" -> "Windows"
      [] t = "office"  -> "Office"
      [] t = "msi"     -> "Msi"
      [] t = "arm"     -> "Arm"
      [] t = "ltsc"    -> "Ltsc"
      [] t = "vista"   -> "Vista"
      [] t = "xp"      -> "Xp"
      [] OTHER         -> t

\* md_file.replace('_links.md', '').replace('_', ' ').title()
FallbackCategory(md_file) ==
    LET t == SelectSeq(md_file, LAMBDA x : x # "_links.md")
    IN [i \in 1..Len(t) |-> IF t[i] = "_" THEN SP ELSE TitleWord(t[i])]

\* Category with the label of the branch above pasted into the last branch
CategoryPastedLabel(md_file) ==
    IF Contains(md_file, <<"windows", "_", "11">>) THEN <<"Windows", SP, "11">>
    ELSE IF Contains(md_file, <<"windows", "_", "10">>) THEN <<"Windows", SP, "10">>
    ELSE IF Contains(md_file, <<"windows", "_", "7">>) THEN <<"Windows", SP, "7">>
    ELSE IF Contains(md_file, <<"windows", "_", "8.1">>) THEN <<"Windows", SP, "8.1">>
    ELSE IF Contains(md_file, <<"windows", "_", "arm">>) THEN <<"Windows", SP, "ARM">>
    ELSE IF Contains(md_file, <<"windows", "_", "ltsc">>) THEN <<"Windows", SP, "LTSC">>
    ELSE IF Contains(md_file, <<"windows", "_", "vista">>) THEN <<"Windows", SP, "Vista">>
    ELSE IF Contains(md_file, <<"windows", "_", "xp">>) THEN <<"Windows", SP, "Vista">>
    ELSE FallbackCategory(md_file)

\* the if/elif chain of lines 244-261
Category(md_file) ==
    IF Contains(md_file, <<"windows", "_", "11">>) THEN <<"Windows", SP, "11">>
    ELSE IF Contains(md_file, <<"windows", "_", "10">>) THEN <<"Windows", SP, "10">>
    ELSE IF Contains(md_file, <<"windows", "_", "7">>) THEN <<"Windows", SP, "7">>
    ELSE IF Contains(md_file, <<"windows", "_", "8.1">>) THEN <<"Windows", SP, "8.1">>
    ELSE IF Contains(md_file, <<"windows", "_", "arm">>) THEN <<"Windows", SP, "ARM">>
    ELSE IF Contains(md_file, <<"windows", "_", "ltsc">>) THEN <<"Windows", SP, "LTSC">>
    ELSE IF Contains(md_file, <<"windows", "_", "vista">>) THEN <<"Windows", SP, "Vista">>
    ELSE IF Contains(md_file, <<"windows", "_", "xp">>) THEN <<"Windows", SP, "XP">>
    ELSE FallbackCategory(md_file)

-----------------------------------------------------------------------------
(* The remote documents a run may be served *)

WinDocs == {"tabs", "heads", "none"}
OfficeDocs == {"office", "plain"}

\* what the remote document is made of
DocBlocks(d) ==
    CASE d = "tabs"   -> <<Block("tab", "B", "LA", "none"), Block("tab", "A", "LA", "r1b")>>
      [] d = "heads"  -> <<Block("h2", "T2", "", "junk"), Block("h2", "T1", "", "r1b")>>
      [] d = "none"   -> <<Block("tab", "B", "LA", "none")>>
      [] d = "office" -> <<Block("h2", "O16", "", ""), Block("tab", "B", "LA", "none"),
                           Block("tab", "A", "LA", "r1b")>>
      [] d = "plain"  -> <<Block("h2", "T1", "", "r2")>>

\* response.text of each remote document
RemoteText == [d \in WinDocs \cup OfficeDocs |-> RenderDoc(DocBlocks(d))]

\* parse_windows_versions(content), per remote document
WindowsVersionsOf == [d \in WinDocs |-> parse_windows_versions(RemoteText[d])]

\* parse_office_sections(content), per remote document
OfficeMapOf == [d \in OfficeDocs |-> parse_office_sections(RemoteText[d])]

\* datetime.utcnow().isoformat() + "Z"
Timestamps == {"2026-01-01T00:00:00Z", "2026-01-02T00:00:00Z"}

-----------------------------------------------------------------------------
(* main, scrape_all_windows_versions, scrape_office_versions *)

ParserIdle ==
    /\ input = <<>>
    /\ content = <<>>
    /\ result = <<>>
    /\ op = "none"

ParserVars == <<input, content, result, op>>

\* main up to the first iteration of the loop of scrape_all_windows_versions
Init ==
    /\ ParserIdle
    /\ pc = "windows"
    /\ idx = 1
    /\ \E now \in Timestamps :
           all_data = [last_updated |-> now,
                       source |-> "https://github.com/massgravel/massgrave.dev",
                       windows_versions |-> <<>>,
                       office_versions |-> <<>>]
    /\ fetched = <<>>
    /\ written = 0
    /\ exit_status = 0

\* the for statement taking the next document, or the return after the last
NextDocument ==
    /\ idx' = idx + 1
    /\ pc' = IF idx < Len(MD_FILES) THEN "windows" ELSE "office"

\* ProcessWindowsFail with `break` in place of `continue`
ProcessWindowsFailBreak ==
    /\ pc = "windows"
    /\ fetched' = Append(fetched, [file |-> MD_FILES[idx], got |-> "fail"])
    /\ idx' = idx + 1
    /\ pc' = "office"
    /\ UNCHANGED <<all_data, written, exit_status, ParserVars>>

\* one iteration whose fetch raises: the except clause of lines 271-273
ProcessWindowsFail ==
    /\ pc = "windows"
    /\ fetched' = Append(fetched, [file |-> MD_FILES[idx], got |-> "fail"])
    /\ NextDocument
    /\ UNCHANGED <<all_data, written, exit_status, ParserVars>>

\* one iteration whose fetch succeeds: lines 238-269
ProcessWindowsOk ==
    /\ pc = "windows"
    /\ \E d \in WinDocs :
        LET versions == WindowsVersionsOf[d]
            category == Category(MD_FILES[idx])
        IN /\ fetched' = Append(fetched, [file |-> MD_FILES[idx], got |-> d])
           /\ all_data' =
                IF versions # <<>>
                THEN [all_data EXCEPT
                         !.windows_versions = DictSet(@, category, versions)]
                ELSE all_data
    /\ NextDocument
    /\ UNCHANGED <<written, exit_status, ParserVars>>

\* ScrapeOfficeFail with the Catalog built anew in the except clause
ScrapeOfficeFailClears ==
    /\ pc = "office"
    /\ \E g \in {"fail", "raise"} :
           fetched' = Append(fetched, [file |-> OFFICE_MD_FILE, got |-> g])
    /\ all_data' = [all_data EXCEPT !.windows_versions = <<>>]
    /\ pc' = "write"
    /\ UNCHANGED <<idx, written, exit_status, ParserVars>>

\* ScrapeOfficeFail with `raise` at the end of the except clause
ScrapeOfficeFailRaise ==
    /\ pc = "office"
    /\ \E g \in {"fail", "raise"} :
           fetched' = Append(fetched, [file |-> OFFICE_MD_FILE, got |-> g])
    /\ pc' = "failed"
    /\ exit_status' = 1
    /\ UNCHANGED <<idx, all_data, written, ParserVars>>

\* scrape_office_versions when the fetch ("fail") or the parse ("raise")
\* raises: the except clause of lines 297-299
ScrapeOfficeFail ==
    /\ pc = "office"
    /\ \E g \in {"fail", "raise"} :
           fetched' = Append(fetched, [file |-> OFFICE_MD_FILE, got |-> g])
    /\ pc' = "write"
    /\ UNCHANGED <<idx, all_data, written, exit_status, ParserVars>>

\* scrape_office_versions when nothing raises: lines 285-295
ScrapeOfficeOk ==
    /\ pc = "office"
    /\ \E d \in OfficeDocs :
        LET office_map == OfficeMapOf[d]
        IN /\ fetched' = Append(fetched, [file |-> OFFICE_MD_FILE, got |-> d])
           /\ all_data' =
                IF office_map # <<>>
                THEN [all_data EXCEPT
                         !.office_versions = DictUpdate(@, office_map)]
                ELSE all_data
    /\ pc' = "write"
    /\ UNCHANGED <<idx, written, exit_status, ParserVars>>

\* the artifact is written and main returns: lines 317-336
WriteArtifact ==
    /\ pc = "write"
    /\ written' = written + 1
    /\ pc' = "done"
    /\ UNCHANGED <<idx, all_data, fetched, exit_status, ParserVars>>

\* open or json.dump raises: the top-level handler, lines 338-342
WriteFails ==
    /\ pc = "write"
    /\ pc' = "failed"
    /\ exit_status' = 1
    /\ UNCHANGED <<idx, all_data, fetched, written, ParserVars>>

Next ==
    \/ ProcessWindowsFail
    \/ ProcessWindowsOk
    \/ ScrapeOfficeFail
    \/ ScrapeOfficeOk
    \/ WriteArtifact
    \/ WriteFails

Spec == Init /\ [][Next]_vars

-----------------------------------------------------------------------------
(* What the descriptions say the parsers should return *)

NonBlank(line) == SelectSeq(line, LAMBDA k : k # "blank")

\* the line holds a pipe, an architecture token, and a link in its third
\* non-empty cell
IsLinkRow(line) ==
    /\ Len(line) >= 2
    /\ \E i \in 1..Len(line) : line[i] \in {"arch", "linkx"}
    /\ Len(NonBlank(line)) >= 3
    /\ NonBlank(line)[3] \in {"link", "linkx"}

LinkRowRecord(line) ==
    [language |-> CellWord(NonBlank(line)[1]),
     architecture |-> CellWord(NonBlank(line)[2]),
     filename |-> <<CellWord(NonBlank(line)[3])[2]>>,
     url |-> <<CellWord(NonBlank(line)[3])[5]>>]

\* a separator mark right after a pipe, or "| Language" at the start
IsSeparatorOrHeader(line) ==
    \/ \E j \in 2..Len(line) : line[j] = "sep"
    \/ Len(line) >= 2 /\ line[1] = "blank" /\ line[2] = "hdr"

Summary(r) ==
    [name |-> r.version_name, label |-> r.version_label, downloads |-> r.downloads]

Summaries(rs) == [i \in 1..Len(rs) |-> Summary(rs[i])]

IsExcludedTab(b) == b.k = "tab" /\ (b.v = "OV" \/ b.l = "OVL")

\* index of the first block after i of the kind of headings in hd, or one
\* past the last block
NextHeading(blocks, i, hd) ==
    LET at == {j \in (i + 1)..Len(blocks) : blocks[j].k = "h2" /\ blocks[j].v \in hd}
    IN IF at = {} THEN Len(blocks) + 1 ELSE MinOf(at)

\* the one record of a tab block that is not excluded and lists a download
TabBlockRecord(b) ==
    IF b.k = "tab" /\ ~IsExcludedTab(b) /\ BodyRows(b.body) # <<>>
    THEN <<[version_name |-> NameText(b.v), version_label |-> NameText(b.l),
            build |-> BodyBuild(b.body), downloads |-> BodyRows(b.body)]>>
    ELSE <<>>

ExpectedTabRecords(blocks) ==
    Concat([i \in 1..Len(blocks) |-> TabBlockRecord(blocks[i])])

AllTitles == {"T1", "T2", "O16", "O13"}
OfficeTitles == {"O16", "O13"}

\* the downloads listed from heading i to the next level-2 heading
HeadingSectionRows(blocks, i) ==
    Concat([j \in 1..(NextHeading(blocks, i, AllTitles) - i) |->
                BodyRows(blocks[i + j - 1].body)])

ExpectedHeadingRecords(blocks) ==
    Concat([i \in 1..Len(blocks) |->
        IF blocks[i].k = "h2" /\ HeadingSectionRows(blocks, i) # <<>>
        THEN <<[name |-> NameText(blocks[i].v), label |-> NameText(blocks[i].v),
                downloads |-> HeadingSectionRows(blocks, i)]>>
        ELSE <<>>])

\* the downloads listed inside the excluded tab blocks
ExcludedDownloads(blocks) ==
    UNION {{BodyRows(blocks[i].body)[n] : n \in 1..Len(BodyRows(blocks[i].body))} :
              i \in {j \in 1..Len(blocks) : IsExcludedTab(blocks[j])}}

OfficeHeadings(blocks) ==
    {i \in 1..Len(blocks) : blocks[i].k = "h2" /\ blocks[i].v \in OfficeTitles}

\* the records of the tab blocks of the section that Office heading i opens
OfficeSectionRecords(blocks, i) ==
    Concat([j \in 1..(NextHeading(blocks, i, OfficeTitles) - i - 1) |->
                TabBlockRecord(blocks[i + j])])

\* the category of heading i is the category of no other Office heading
OnlyHeadingOfItsYear(blocks, i) ==
    \A j \in OfficeHeadings(blocks) : blocks[j].v = blocks[i].v => j = i

-----------------------------------------------------------------------------
(* Claims about the parsers *)

\* C5: parse_windows_versions never returns a record built from a tab block
\* whose value or label contains "Other Versions": no returned record carries
\* such a name or label, and no returned download is a row of such a tab.
C5_OtherVersionsNeverReturned ==
    op = "windows" =>
        \A i \in 1..Len(result) :
            /\ ~IsOtherVersions(result[i].version_name, result[i].version_label)
            /\ \A n \in 1..Len(result[i].downloads) :
                   result[i].downloads[n] \notin ExcludedDownloads(input)

\* C6: when some tab block is not excluded and lists a download, the result
\* is one record per such tab block, in order of appearance, each with the
\* build and the downloads of its own block.
C6_TabRecordsFromOwnBlock ==
    (op = "windows" /\ ExpectedTabRecords(input) # <<>>) =>
        result = ExpectedTabRecords(input)

\* C7: parse_windows_versions returns the records of the tab-block strategy
\* when there are any; otherwise it returns one record per level-2 heading
\* whose section lists a download, in heading order, named and labelled by
\* the heading text, and none for a heading whose section lists none.
C7_HeadingFallback ==
    op = "windows" =>
        IF TabVersions(content) = <<>>
        THEN Summaries(result) = ExpectedHeadingRecords(input)
        ELSE result = TabVersions(content)

\* a fallback with two headings, only one of which lists a download
C7_Witness ==
    /\ op = "windows"
    /\ TabVersions(content) = <<>>
    /\ Len(result) = 1
    /\ Cardinality({i \in 1..Len(input) : input[i].k = "h2"}) = 2

\* C8 as stated: every line with a pipe, an architecture token and a link in
\* its third non-empty cell yields exactly one record (language, architecture,
\* filename, url), in line order, and every other line yields none.
C8_EveryLinkRowYieldsRecord ==
    op = "table" =>
        result = Concat([i \in 1..Len(input) |->
                     IF IsLinkRow(input[i])
                     THEN <<LinkRowRecord(input[i])>> ELSE <<>>])

\* C8 as amended: the same for the lines that neither hold "|:--" nor start
\* with "| Language"; those lines yield no record.
C8_LinkRowsExceptSkippedLines ==
    op = "table" =>
        result = Concat([i \in 1..Len(input) |->
                     IF IsLinkRow(input[i]) /\ ~IsSeparatorOrHeader(input[i])
                     THEN <<LinkRowRecord(input[i])>> ELSE <<>>])

\* two lines that each yield a record, and the records differ
C8_Witness ==
    /\ op = "table"
    /\ Len(input) = 2
    /\ Len(result) = 2
    /\ result[1] # result[2]

\* C10: the category of each Office heading holds one record per tab block
\* of its section that lists a download and is not an "Other Versions" tab,
\* in order of appearance, and is absent when there is no such tab block.
C10_OfficeTabStrategy ==
    op = "office" =>
        \A i \in OfficeHeadings(input) :
            OnlyHeadingOfItsYear(input, i) =>
                LET recs == OfficeSectionRecords(input, i)
                IN IF recs = <<>>
                   THEN ~DictHas(result, NameText(input[i].v))
                   ELSE \E n \in 1..Len(result) :
                            /\ result[n].key = NameText(input[i].v)
                            /\ result[n].val = recs

-----------------------------------------------------------------------------
(* Claims about a run of main *)

Last(q) == q[Len(q)]

\* the remote documents that hold at least one version with a download
DocsWithVersions == {"tabs", "heads"}

\* the category of each configured document
CategoryOf == [i \in 1..Len(MD_FILES) |-> Category(MD_FILES[i])]

CategoriesDistinct ==
    \A i, j \in 1..Len(MD_FILES) : CategoryOf[i] = CategoryOf[j] => i = j

\* every VersionRecord of the dict d has a download
AllHaveDownloads(d) ==
    \A i \in 1..Len(d) : \A n \in 1..Len(d[i].val) : Len(d[i].val[n].downloads) >= 1

\* C1: in the loop over MD_FILES every iteration fetches the document the
\* loop is at and goes on to the next one whatever the outcome, an iteration
\* whose fetch fails leaves windows_versions as it was, and when the loop is
\* left the 8 documents have been fetched in configured order.
C1_FailedFetchSkipsDocument ==
    /\ [][pc = "windows" =>
            /\ fetched' = Append(fetched, [file |-> MD_FILES[idx],
                                           got |-> Last(fetched').got])
            /\ idx < Len(MD_FILES) => (pc' = "windows" /\ idx' = idx + 1)
            /\ Last(fetched').got = "fail" =>
                   all_data'.windows_versions = all_data.windows_versions]_vars
    /\ [](pc # "windows" =>
            /\ Len(fetched) >= Len(MD_FILES)
            /\ \A i \in 1..Len(MD_FILES) : fetched[i].file = MD_FILES[i])

\* a failed fetch between two documents that each gave an entry
C1_Witness ==
    /\ pc = "office"
    /\ fetched[1].got = "tabs"
    /\ fetched[2].got = "fail"
    /\ fetched[3].got = "heads"
    /\ DictHas(all_data.windows_versions, CategoryOf[1])
    /\ DictHas(all_data.windows_versions, CategoryOf[3])
    /\ ~DictHas(all_data.windows_versions, CategoryOf[2])

\* C2: when the fetch or the parse of the Office document fails, the Catalog
\* is left as it was (windows_versions, last_updated, source), office_versions
\* is empty, and main is at the statement that writes the artifact.
C2_OfficeFailureKeepsCatalog ==
    [][(pc = "office" /\ Last(fetched').got \in {"fail", "raise"}) =>
            /\ all_data'.windows_versions = all_data.windows_versions
            /\ all_data'.last_updated = all_data.last_updated
            /\ all_data'.source = all_data.source
            /\ all_data'.office_versions = <<>>
            /\ pc' = "write"]_vars

\* the parse of the Office document failed after Windows entries were stored
C2_Witness ==
    /\ pc = "write"
    /\ Last(fetched).got = "raise"
    /\ Len(all_data.windows_versions) = Len(MD_FILES)

\* C3: the exit status is non-zero only after the top-level handler ran, which
\* happens only from the step that writes the artifact; whatever the fetches
\* gave, main reaches that step with status 0 and nothing written, and when it
\* returns the artifact has been written exactly once and the status is 0.
C3_ExitStatus ==
    /\ [](/\ exit_status # 0 => pc = "failed"
          /\ pc \in {"windows", "office", "write"} => (written = 0 /\ exit_status = 0)
          /\ pc = "done" => (written = 1 /\ exit_status = 0))
    /\ [][/\ pc' = "failed" => pc = "write"
          /\ pc = "office" => pc' = "write"]_vars

\* every fetch of the run failed, the artifact is written and the exit is normal
C3_Witness ==
    /\ pc = "done"
    /\ written = 1
    /\ exit_status = 0
    /\ \A i \in 1..Len(fetched) : fetched[i].got = "fail"

\* C4: every VersionRecord stored in windows_versions or office_versions has
\* at least one DownloadRecord.
C4_NoVersionWithoutDownloads ==
    pc # "idle" =>
        /\ AllHaveDownloads(all_data.windows_versions)
        /\ AllHaveDownloads(all_data.office_versions)

\* a Catalog with entries from the tab strategy, the heading fallback and the
\* Office sections, each from a document that also holds a section without
\* downloads
C4_Witness ==
    /\ pc = "done"
    /\ fetched[1].got = "tabs"
    /\ fetched[2].got = "heads"
    /\ Last(fetched).got = "office"
    /\ Len(all_data.windows_versions) >= 2
    /\ Len(all_data.office_versions) = 1

\* C9: the keys of windows_versions are, in order, the categories of the
\* documents of MD_FILES that were fetched and hold at least one version, and
\* the 8 documents have 8 pairwise distinct categories.
C9_KeysInConfiguredOrder ==
    pc # "idle" =>
        /\ DictKeys(all_data.windows_versions) =
               Concat([i \in 1..(IF Len(fetched) < Len(MD_FILES)
                                 THEN Len(fetched) ELSE Len(MD_FILES)) |->
                           IF fetched[i].got \in DocsWithVersions
                           THEN <<CategoryOf[i]>> ELSE <<>>])
        /\ CategoriesDistinct

\* a run that skipped the first document (no version), failed on the third
\* and stored the second and the last
C9_Witness ==
    /\ pc = "done"
    /\ fetched[1].got = "none"
    /\ fetched[3].got = "fail"
    /\ DictKeys(all_data.windows_versions) =
           <<<<"Windows", SP, "10">>, <<"Windows", SP, "XP">>>>

====
